---- MODULE Spec2Model ----
(***************************************************************************)
(* A model of chromadol's util module (src/chromadol/util.py) and of the   *)
(* mapping interface of ChromaCollection that chromadol/__init__.py and    *)
(* tests/base_test.py document.                                            *)
(*                                                                         *)
(* Four independent parts, each with its own specification:                *)
(*   SpecBind   map_arguments / argument_value                             *)
(*   SpecWrap   transform_methods_to_keep_only_include_keys, Delegator,    *)
(*              keep_only_include_keys, _methods_containing_include_argument*)
(*   SpecStore  add_if_missing over a collection, and the collection's     *)
(*              item assignment and item read                              *)
(*   SpecPool   mapped_list over a ThreadPoolExecutor                      *)
(*                                                                         *)
(* Python values: a dict is a function over its keys, a list is a          *)
(* sequence. Where a value may be a list or None, None is the sequence     *)
(* NoneValue, which no list of the model equals; where it may be a string  *)
(* or None, None is the string None.                                       *)
(***************************************************************************)
EXTENDS Integers, Sequences, FiniteSets, TLC

VARIABLES
    bound,        \* SpecBind: the last call of map_arguments / argument_value
    instance,     \* SpecWrap: the attributes of the wrapped object
    delegated,    \* SpecWrap: the Delegator that transform_methods_... returned
    invoked,      \* SpecWrap: the invocations of the instance's own methods
    outcome,      \* SpecWrap: the last call or lookup and what it gave
    collection,   \* SpecStore: the records of the collection, by id
    store_calls,  \* SpecStore: the store calls of the last operation, in order
    last,         \* SpecStore: the last operation, its inputs and what it gave
    pool          \* SpecPool: one run of mapped_list

vars == <<bound, instance, delegated, invoked, outcome,
          collection, store_calls, last, pool>>

bindVars == <<bound>>
wrapVars == <<instance, delegated, invoked, outcome>>
storeVars == <<collection, store_calls, last>>
poolVars == <<pool>>

----------------------------------------------------------------------------
(* Bounds *)

\* The longest positional argument list of a call.
MaxArgs == 3

\* The longest positional argument list of a call on the object or its proxy.
MaxCallArgs == 2

\* The longest list of ids of a call of add_if_missing.
MaxIds == 2

\* The longest iterable and the most workers of a call of mapped_list.
MaxLen == 3
MaxWorkers == 2

----------------------------------------------------------------------------
(* Python helpers *)

None == "None"
NoneValue == <<"NoneType">>

Range(s) == {s[i] : i \in 1..Len(s)}

\* The sequences over S of length n, and of length at most n.
SeqsOfLen(S, n) == [1..n -> S]
SeqsUpTo(S, n) == UNION {SeqsOfLen(S, k) : k \in 0..n}

\* The dicts with keys among K and values in V.
Dicts(K, V) == UNION {[D -> V] : D \in SUBSET K}

\* Python's dict(d, e...): the entries of e over those of d.
DictUpdate(d, e) ==
    [k \in (DOMAIN d) \cup (DOMAIN e) |-> IF k \in DOMAIN e THEN e[k] ELSE d[k]]

----------------------------------------------------------------------------
(* inspect.signature(func).bind and BoundArguments.apply_defaults           *)
(* A signature is a sequence of positional-or-keyword parameters           *)
(* [name, required, default]; the default of a required one is unused.     *)

Param(name, required, default) ==
    [name |-> name, required |-> required, default |-> default]

ParamNames(sig) == {sig[i].name : i \in 1..Len(sig)}

Raised(kind) == [ok |-> FALSE, error |-> kind, arguments |-> <<>>]
Returned(arguments) == [ok |-> TRUE, error |-> "", arguments |-> arguments]

\* The positional phase of Signature.bind: the i-th positional argument
\* takes the i-th parameter; no parameter left, or one also named by a
\* keyword, raises.
RECURSIVE bind_positional(_, _, _, _)
bind_positional(sig, args, kwargs, i) ==
    IF i > Len(args) THEN ""
    ELSE IF i > Len(sig) THEN "too many positional arguments"
    ELSE IF sig[i].name \in DOMAIN kwargs THEN "multiple values for argument"
    ELSE bind_positional(sig, args, kwargs, i + 1)

\* The keyword phase: each parameter after the positional ones takes the
\* keyword of its name; one with neither keyword nor default raises.
RECURSIVE bind_keywords(_, _, _, _)
bind_keywords(sig, kwargs, i, acc) ==
    IF i > Len(sig) THEN Returned(acc)
    ELSE IF sig[i].name \in DOMAIN kwargs
         THEN bind_keywords(sig, kwargs, i + 1,
                            DictUpdate(acc, sig[i].name :> kwargs[sig[i].name]))
    ELSE IF sig[i].required THEN Raised("missing a required argument")
    ELSE bind_keywords(sig, kwargs, i + 1, acc)

\* Signature.bind: the arguments given, by parameter name.
bind(sig, args, kwargs) ==
    LET perr == bind_positional(sig, args, kwargs, 1) IN
    IF perr # "" THEN Raised(perr)
    ELSE LET positional == [n \in {sig[i].name : i \in 1..Len(args)} |->
                               args[CHOOSE i \in 1..Len(args) : sig[i].name = n]]
             b == bind_keywords(sig, kwargs, Len(args) + 1, positional)
         IN  IF ~b.ok THEN b
             ELSE IF (DOMAIN kwargs) \ ParamNames(sig) # {}
                  THEN Raised("got an unexpected keyword argument")
             ELSE b

\* BoundArguments.apply_defaults: every parameter not given takes its default.
apply_defaults(sig, arguments) ==
    [n \in ParamNames(sig) |->
        IF n \in DOMAIN arguments THEN arguments[n]
        ELSE (CHOOSE p \in Range(sig) : p.name = n).default]

\* A mutant of map_arguments: the defaults are not applied.
map_arguments_no_defaults(sig, args, kwargs) == bind(sig, args, kwargs)

\* util.map_arguments
map_arguments(sig, args, kwargs) ==
    LET b == bind(sig, args, kwargs) IN
    IF b.ok THEN Returned(apply_defaults(sig, b.arguments)) ELSE b

\* util.argument_value: kwargs[argname] of the mapped arguments.
argument_value(argname, sig, args, kwargs) ==
    LET m == map_arguments(sig, args, kwargs) IN
    IF ~m.ok THEN [ok |-> FALSE, error |-> m.error, value |-> 0]
    ELSE IF argname \notin DOMAIN m.arguments
         THEN [ok |-> FALSE, error |-> "KeyError", value |-> 0]
    ELSE [ok |-> TRUE, error |-> "", value |-> m.arguments[argname]]

----------------------------------------------------------------------------
(* SpecBind: calls of map_arguments and argument_value.                    *)

\* Signatures of the calls, the first the docstrings' lambda x, y, z=42.
BindSigs ==
    { <<Param("x", TRUE, 0), Param("y", TRUE, 0), Param("z", FALSE, 42)>>,
      <<Param("x", FALSE, 7), Param("y", FALSE, 8)>>,
      <<Param("z", FALSE, 42)>>,
      <<>> }
BindNames == {"x", "y", "z", "w"}
BindValues == {1, 2}

NoCall == [op |-> "none", sig |-> <<>>, args |-> <<>>, kwargs |-> <<>>,
           argname |-> "", mapped |-> Raised(""),
           value |-> [ok |-> FALSE, error |-> "", value |-> 0]]

CallMapArguments ==
    /\ bound.op = "none"
    /\ \E sig \in BindSigs, args \in SeqsUpTo(BindValues, MaxArgs),
       kwargs \in Dicts(BindNames, BindValues) :
        bound' = [NoCall EXCEPT !.op = "map_arguments", !.sig = sig,
                                !.args = args, !.kwargs = kwargs,
                                !.mapped = map_arguments(sig, args, kwargs)]

CallArgumentValue ==
    /\ bound.op = "none"
    /\ \E argname \in BindNames, sig \in BindSigs,
       args \in SeqsUpTo(BindValues, MaxArgs),
       kwargs \in Dicts(BindNames, BindValues) :
        bound' = [NoCall EXCEPT !.op = "argument_value", !.sig = sig,
                                !.args = args, !.kwargs = kwargs,
                                !.argname = argname,
                                !.value = argument_value(argname, sig, args, kwargs)]

NextBind ==
    \/ CallMapArguments /\ UNCHANGED <<wrapVars, storeVars, poolVars>>
    \/ CallArgumentValue /\ UNCHANGED <<wrapVars, storeVars, poolVars>>

----------------------------------------------------------------------------
(* SpecWrap: an object, the Delegator that                                 *)
(* transform_methods_to_keep_only_include_keys builds over it, and calls   *)
(* and lookups on both.                                                    *)
(* An attribute is [callable, sig, value, wrapped]: value holds the name   *)
(* of a method's implementation or a data attribute's value; wrapped marks *)
(* the _wrapped closure that keep_only_include_keys made of a method.      *)

Method(impl, sig) ==
    [callable |-> TRUE, sig |-> sig, value |-> <<impl>>, wrapped |-> FALSE]
Impl(attr) == attr.value[1]
Data(v) == [callable |-> FALSE, sig |-> <<>>, value |-> v, wrapped |-> FALSE]

\* The signatures of the object's methods (self is bound).
sig_get ==
    <<Param("ids", FALSE, NoneValue),
      Param("include", FALSE, <<"metadatas", "documents">>)>>
sig_query ==
    <<Param("query_texts", FALSE, NoneValue),
      Param("include", FALSE, <<"metadatas", "documents", "distances">>)>>
sig_peek_include ==
    <<Param("limit", TRUE, NoneValue), Param("include", FALSE, <<"documents">>)>>
sig_peek == <<Param("limit", FALSE, <<"10">>)>>
sig_count == <<>>
sig_modify == <<Param("name", FALSE, NoneValue)>>
sig_export == <<Param("fields", FALSE, <<"documents">>)>>

\* The attributes every object of the model has: the include-bearing get and
\* query, methods without include (export has a parameter of another name),
\* a data attribute and the docstring.
BaseInstance ==
    [n \in {"get", "query", "count", "modify", "export", "name", "__doc__"} |->
        CASE n = "get" -> Method("get", sig_get)
          [] n = "query" -> Method("query", sig_query)
          [] n = "count" -> Method("count", sig_count)
          [] n = "modify" -> Method("modify", sig_modify)
          [] n = "export" -> Method("export", sig_export)
          [] n = "name" -> Data(<<"test_inclusion_filter">>)
          [] n = "__doc__" -> Data(<<"Chroma collection">>)]

\* The attributes an object may have besides: a public peek that is data, a
\* method without include or a method with include; a private method with
\* include; a wrapped_obj.
OptionalAttrs ==
    { e \in Dicts({"peek", "_get", "wrapped_obj"},
                  { Data(<<"peeked">>), Method("peek", sig_peek),
                    Method("peek", sig_peek_include), Method("get", sig_get) }) :
        /\ "peek" \in DOMAIN e =>
              e["peek"] \in { Data(<<"peeked">>), Method("peek", sig_peek),
                              Method("peek", sig_peek_include) }
        /\ "_get" \in DOMAIN e => e["_get"] = Method("get", sig_get)
        /\ "wrapped_obj" \in DOMAIN e => e["wrapped_obj"] = Data(<<"peeked">>) }

Instances == {DictUpdate(BaseInstance, e) : e \in OptionalAttrs}

\* dir(obj): the attribute names of the object.
dir(obj) == DOMAIN obj

\* str.startswith('_')
startswith_underscore(name) == Len(name) > 0 /\ Head(name) = "_"

\* 'argname in signature(method).parameters'
has_parameter(attr, argname) == argname \in ParamNames(attr.sig)

\* util._methods_containing_include_argument
_methods_containing_include_argument(obj, argname) ==
    { method_name \in dir(obj) :
        /\ ~startswith_underscore(method_name)
        /\ obj[method_name].callable
        /\ has_parameter(obj[method_name], argname) }

\* The keys and values of the mapping a method returns: every result field,
\* with NoneValue for a field the include argument does not name.
ResultKeys(impl) ==
    IF impl = "query"
    THEN {"ids", "distances", "metadatas", "embeddings", "documents", "uris", "data"}
    ELSE {"ids", "embeddings", "metadatas", "documents", "uris", "data"}

MethodResult(impl, arguments) ==
    IF "include" \in DOMAIN arguments
    THEN [k \in ResultKeys(impl) |->
            IF k = "ids" THEN <<"apple", "banana">>
            ELSE IF k \in Range(arguments["include"]) THEN <<k>>
            ELSE NoneValue]
    ELSE [k \in {"value"} |-> <<impl>>]

\* util.subdict
subdict(d, keys) == [k \in {x \in DOMAIN d : x \in Range(keys)} |-> d[k]]

\* A call of a method of the object with positional and keyword arguments:
\* Python binds them to the parameters as Signature.bind does.
CallMethod(attr, args, kwargs) ==
    LET m == map_arguments(attr.sig, args, kwargs) IN
    IF ~m.ok THEN [ok |-> FALSE, error |-> m.error, arguments |-> <<>>,
                   result |-> <<>>]
    ELSE [ok |-> TRUE, error |-> "", arguments |-> m.arguments,
          result |-> MethodResult(Impl(attr), m.arguments)]

\* The _wrapped closure of keep_only_include_keys(method), called.
_wrapped(method, args, kwargs) ==
    LET m == map_arguments(method.sig, args, kwargs) IN
    IF ~m.ok THEN [ok |-> FALSE, error |-> m.error, arguments |-> <<>>,
                   result |-> <<>>, called |-> FALSE]
    ELSE LET include == IF "include" \in DOMAIN m.arguments
                        THEN m.arguments["include"] ELSE <<>>
             keep_keys == <<"ids">> \o include
             c == CallMethod(method, args, m.arguments)
         IN  IF ~c.ok THEN [ok |-> FALSE, error |-> c.error,
                            arguments |-> <<>>, result |-> <<>>,
                            called |-> FALSE]
             ELSE [ok |-> TRUE, error |-> "", arguments |-> c.arguments,
                   result |-> subdict(c.result, keep_keys), called |-> TRUE]

\* util.keep_only_include_keys: the closure over the method.
keep_only_include_keys(method) == [method EXCEPT !.wrapped = TRUE]

\* The attributes that normal lookup finds on a Delegator before __getattr__
\* is asked: those of the class (its docstring), besides the instance's own.
DelegatorClassAttrs ==
    [n \in {"__doc__"} |->
        Data(<<"Delegates all attributes to the wrapped object">>)]

NotBuilt == [built |-> FALSE, method_names |-> <<>>, own |-> <<>>]

\* Delegator.__init__
Delegator(wrapped_obj) ==
    [built |-> TRUE, method_names |-> <<>>,
     own |-> [n \in {"wrapped_obj"} |-> Data(<<"the wrapped instance">>)]]

\* A mutant of Delegator.__getattr__: only public names are forwarded.
Delegator__getattr__public_only(wrapped_obj, attr) ==
    IF attr \in DOMAIN wrapped_obj /\ ~startswith_underscore(attr)
    THEN [ok |-> TRUE, value |-> wrapped_obj[attr]]
    ELSE [ok |-> FALSE, value |-> Data(<<"AttributeError">>)]

\* Delegator.__getattr__: forward to the wrapped object.
Delegator__getattr__(wrapped_obj, attr) ==
    IF attr \in DOMAIN wrapped_obj
    THEN [ok |-> TRUE, value |-> wrapped_obj[attr]]
    ELSE [ok |-> FALSE, value |-> Data(<<"AttributeError">>)]

\* getattr(proxy, attr): the proxy's own attributes, then its class's, and
\* only then __getattr__.
getattr(proxy, wrapped_obj, attr) ==
    IF attr \in DOMAIN proxy.own THEN [ok |-> TRUE, value |-> proxy.own[attr]]
    ELSE IF attr \in DOMAIN DelegatorClassAttrs
         THEN [ok |-> TRUE, value |-> DelegatorClassAttrs[attr]]
    ELSE Delegator__getattr__(wrapped_obj, attr)

\* A mutant of transform_methods_to_keep_only_include_keys: the methods
\* wrapped are those method_names lists.
transform_listed_methods(obj, method_names) ==
    LET delegated0 == Delegator(obj)
        names == {n \in dir(obj) : n \in Range(method_names) /\ obj[n].callable}
    IN  [delegated0 EXCEPT
            !.method_names = method_names,
            !.own = DictUpdate(delegated0.own,
                               [n \in names |-> keep_only_include_keys(obj[n])])]

\* util.transform_methods_to_keep_only_include_keys
transform_methods_to_keep_only_include_keys(obj, method_names) ==
    LET delegated0 == Delegator(obj)
        names == { method_name \in dir(obj) :
                     /\ ~startswith_underscore(method_name)
                     /\ obj[method_name].callable
                     /\ has_parameter(obj[method_name], "include") }
    IN  [delegated0 EXCEPT
            !.method_names = method_names,
            !.own = DictUpdate(delegated0.own,
                               [n \in names |-> keep_only_include_keys(obj[n])])]

\* The names whose lookup on the proxy gives a _wrapped closure.
WrappedNames(proxy) == {n \in DOMAIN proxy.own : proxy.own[n].wrapped}

\* What a call of a method of the object does to the object: modify(name)
\* renames it, the other methods leave it alone.
Effect(obj, impl, arguments) ==
    IF impl = "modify" /\ arguments["name"] # NoneValue
    THEN [obj EXCEPT !["name"] = Data(arguments["name"])]
    ELSE obj

AttrNames ==
    {"get", "query", "count", "modify", "name", "__doc__",
     "peek", "_get", "export", "wrapped_obj", "missing"}
ArgNames == {"include", "fields", "limit"}
WrapValues == {<<"apple">>, <<"uris">>}
MethodNameLists == {<<"get", "query">>, <<>>, <<"count">>}

NoOutcome ==
    [op |-> "none", name |-> "", args |-> <<>>, kwargs |-> <<>>,
     ok |-> FALSE, error |-> "", result |-> <<>>, value |-> Data(<<>>),
     names |-> {}, pre |-> <<>>]

\* wrapped = transform_methods_to_keep_only_include_keys(instance, ...)
Transform ==
    /\ ~delegated.built
    /\ \E method_names \in MethodNameLists :
          delegated' =
              transform_methods_to_keep_only_include_keys(instance, method_names)
    /\ UNCHANGED <<instance, invoked, outcome>>

\* instance.modify(name=v), called on the object itself.
Modify ==
    /\ outcome.op = "none"
    /\ \E v \in WrapValues :
          LET c == CallMethod(instance["modify"], <<>>, [k \in {"name"} |-> v])
          IN  instance' = Effect(instance, "modify", c.arguments)
    /\ UNCHANGED <<delegated, invoked, outcome>>

\* _methods_containing_include_argument(instance, argname)
Discover ==
    /\ outcome.op = "none"
    /\ \E argname \in ArgNames :
          outcome' = [NoOutcome EXCEPT
                        !.op = "discover", !.name = argname, !.pre = instance,
                        !.names = _methods_containing_include_argument(instance, argname)]
    /\ invoked' = <<>>
    /\ UNCHANGED <<instance, delegated>>

\* getattr(wrapped, name)
GetAttr ==
    /\ delegated.built /\ outcome.op = "none"
    /\ \E name \in AttrNames :
          LET g == getattr(delegated, instance, name) IN
          outcome' = [NoOutcome EXCEPT
                        !.op = "getattr", !.name = name, !.pre = instance,
                        !.ok = g.ok, !.value = g.value]
    /\ invoked' = <<>>
    /\ UNCHANGED <<instance, delegated>>

\* The keyword arguments a call may give: the parameters' names and one more.
CallKwargs(attr) == Dicts(ParamNames(attr.sig) \cup {"bogus"}, WrapValues)

\* wrapped.name(args..., kwargs...) for a name that was wrapped
CallWrapped ==
    /\ delegated.built /\ outcome.op = "none"
    /\ \E name \in WrappedNames(delegated) :
        \E args \in SeqsUpTo(WrapValues, MaxCallArgs),
           kwargs \in CallKwargs(delegated.own[name]) :
          LET r == _wrapped(delegated.own[name], args, kwargs) IN
          /\ outcome' = [NoOutcome EXCEPT
                           !.op = "call_wrapped", !.name = name, !.args = args,
                           !.kwargs = kwargs, !.pre = instance, !.ok = r.ok,
                           !.error = r.error, !.result = r.result]
          /\ invoked' = IF r.called
                        THEN <<[name |-> Impl(delegated.own[name]),
                                arguments |-> r.arguments]>>
                        ELSE <<>>
          /\ instance' = IF r.called
                         THEN Effect(instance, Impl(delegated.own[name]), r.arguments)
                         ELSE instance
    /\ UNCHANGED delegated

\* wrapped.name(args..., kwargs...) for a method that was not wrapped
CallPassthrough ==
    /\ delegated.built /\ outcome.op = "none"
    /\ \E name \in AttrNames :
        LET g == getattr(delegated, instance, name) IN
        /\ g.ok /\ g.value.callable /\ ~g.value.wrapped
        /\ \E args \in SeqsUpTo(WrapValues, MaxCallArgs),
              kwargs \in CallKwargs(g.value) :
            LET c == CallMethod(g.value, args, kwargs) IN
            /\ outcome' = [NoOutcome EXCEPT
                             !.op = "call_passthrough", !.name = name,
                             !.args = args, !.kwargs = kwargs, !.pre = instance,
                             !.ok = c.ok, !.error = c.error, !.result = c.result]
            /\ invoked' = IF c.ok
                          THEN <<[name |-> Impl(g.value), arguments |-> c.arguments]>>
                          ELSE <<>>
            /\ instance' = IF c.ok
                           THEN Effect(instance, Impl(g.value), c.arguments)
                           ELSE instance
    /\ UNCHANGED delegated

NextWrap ==
    \/ Transform /\ UNCHANGED <<bindVars, storeVars, poolVars>>
    \/ Modify /\ UNCHANGED <<bindVars, storeVars, poolVars>>
    \/ Discover /\ UNCHANGED <<bindVars, storeVars, poolVars>>
    \/ GetAttr /\ UNCHANGED <<bindVars, storeVars, poolVars>>
    \/ CallWrapped /\ UNCHANGED <<bindVars, storeVars, poolVars>>
    \/ CallPassthrough /\ UNCHANGED <<bindVars, storeVars, poolVars>>

----------------------------------------------------------------------------
(* SpecStore: a collection, add_if_missing over it, and its item           *)
(* assignment and item read.                                               *)
(* The collection is a function from the ids it holds to their records     *)
(* [documents, metadatas]; a field a record lacks is None.                 *)

Keys == {"apple", "banana", "cake"}
Docs == {"crumble", "split"}
Metas == {"m1"}
Fields == {"documents", "metadatas"}
FieldValues(f) == IF f = "documents" THEN Docs ELSE Metas

\* The lists of distinct ids of length at most n.
IdLists(n) == {ids \in SeqsUpTo(Keys, n) :
                 \A i, j \in 1..Len(ids) : ids[i] = ids[j] => i = j}

\* The keyword arguments of a call with n ids: each field is left out, given
\* as None, or given as a list of n values.
FieldKwargs(n) ==
    { kw \in Dicts(Fields, {NoneValue} \cup SeqsOfLen(Docs \cup Metas, n)) :
        \A f \in DOMAIN kw :
            kw[f] # NoneValue => Range(kw[f]) \subseteq FieldValues(f) }

\* collection.get(ids=ids, include=[]): the ids found, and no field.
store_get(coll, ids) ==
    [ids |-> SelectSeq(ids, LAMBDA k : k \in DOMAIN coll)]

\* collection.add(ids=..., documents=..., metadatas=...): one record per id,
\* its fields the values at the id's position; an id already held keeps its
\* record.
store_add(coll, kwargs) ==
    LET ids == kwargs["ids"]
        field(f, j) == IF f \in DOMAIN kwargs /\ kwargs[f] # NoneValue
                       THEN kwargs[f][j] ELSE None
        record(k) == LET j == CHOOSE j \in 1..Len(ids) : ids[j] = k
                     IN  [documents |-> field("documents", j),
                          metadatas |-> field("metadatas", j)]
    IN  [k \in (DOMAIN coll) \cup Range(ids) |->
            IF k \in DOMAIN coll THEN coll[k] ELSE record(k)]

\* [i for i, id_ in enumerate(ids) if id_ not in found_ids], from index i on
\* (the model's indices start at 1).
RECURSIVE enumerate_not_in(_, _, _)
enumerate_not_in(ids, found_ids, i) ==
    IF i > Len(ids) THEN <<>>
    ELSE (IF ids[i] \notin found_ids THEN <<i>> ELSE <<>>)
         \o enumerate_not_in(ids, found_ids, i + 1)

\* util.indices_of_id_not_in_collection
indices_of_id_not_in_collection(coll, ids) ==
    LET found_ids == Range(store_get(coll, ids).ids)
    IN  enumerate_not_in(ids, found_ids, 1)

\* util.ids_not_in_collection
ids_not_in_collection(coll, ids) ==
    LET found_ids == Range(store_get(coll, ids).ids)
    IN  SelectSeq(ids, LAMBDA k : k \notin found_ids)

\* get_missing of add_if_missing: [array[i] for i in missing_indices]
get_missing(array, missing_indices) ==
    [j \in 1..Len(missing_indices) |-> array[missing_indices[j]]]

GetCall(ids) == [op |-> "get", ids |-> ids, include |-> <<>>, kwargs |-> <<>>]
AddCall(kwargs) ==
    [op |-> "add", ids |-> kwargs["ids"], include |-> <<>>, kwargs |-> kwargs]

\* util.add_if_missing: the collection after the call, whether the call
\* returned, and the store calls it made.
add_if_missing(coll, ids, kwargs) ==
    IF ids = NoneValue \/ Len(ids) = 0
    THEN [coll |-> coll, ok |-> TRUE, calls |-> <<>>]
    ELSE
      LET missing_indices == indices_of_id_not_in_collection(coll, ids) IN
      IF Len(missing_indices) = 0
      THEN [coll |-> coll, ok |-> TRUE, calls |-> <<GetCall(ids)>>]
      ELSE
        LET kwargs1 == DictUpdate(kwargs, [k \in {"ids"} |-> ids]) IN
        IF \E k \in DOMAIN kwargs1 : kwargs1[k] = NoneValue
        THEN \* None is not subscriptable: TypeError, before any write
             [coll |-> coll, ok |-> FALSE, calls |-> <<GetCall(ids)>>]
        ELSE
          LET kwargs2 == [k \in DOMAIN kwargs1 |->
                             get_missing(kwargs1[k], missing_indices)]
          IN  [coll |-> store_add(coll, kwargs2), ok |-> TRUE,
               calls |-> <<GetCall(ids), AddCall(kwargs2)>>]

NoOp == [op |-> "none", ids |-> <<>>, kwargs |-> <<>>, key |-> "",
         value |-> <<>>, pre |-> <<>>, ok |-> TRUE]

\* The collections that item assignments build: any ids, any records.
Collections ==
    Dicts(Keys, [documents : Docs \cup {None}, metadatas : Metas \cup {None}])


\* add_if_missing(collection, ids, documents=..., metadatas=...)
AddIfMissing ==
    /\ last.op = "none"
    /\ \E ids \in {NoneValue} \cup IdLists(MaxIds) :
      \E kwargs \in FieldKwargs(IF ids = NoneValue THEN 0 ELSE Len(ids)) :
        LET r == add_if_missing(collection, ids, kwargs) IN
        /\ collection' = r.coll
        /\ store_calls' = r.calls
        /\ last' = [NoOp EXCEPT !.op = "add_if_missing", !.ids = ids,
                                !.kwargs = kwargs, !.pre = collection,
                                !.ok = r.ok]

\* The values of an item assignment: a string, or a mapping of some fields.
WriteValues ==
    {[form |-> "string", text |-> d, fields |-> <<>>] : d \in Docs}
    \cup {[form |-> "mapping", text |-> "", fields |-> m] :
            m \in {m \in Dicts(Fields, Docs \cup Metas) :
                     \A f \in DOMAIN m : m[f] \in FieldValues(f)}}

\* The record an assigned value stands for: a string is the document, a
\* field the value does not give is None.
normalize(v) ==
    IF v.form = "string" THEN [documents |-> v.text, metadatas |-> None]
    ELSE [f \in Fields |-> IF f \in DOMAIN v.fields THEN v.fields[f] ELSE None]

\* A mutant of setitem: the fields the value does not give keep what the
\* record held.
setitem_patch(coll, k, v) ==
    [x \in (DOMAIN coll) \cup {k} |->
        IF x # k THEN coll[x]
        ELSE IF k \notin DOMAIN coll THEN normalize(v)
        ELSE [f \in Fields |->
                IF normalize(v)[f] # None THEN normalize(v)[f] ELSE coll[k][f]]]

\* collection[k] = v: upsert of the one record.
setitem(coll, k, v) ==
    [x \in (DOMAIN coll) \cup {k} |-> IF x = k THEN normalize(v) ELSE coll[x]]

\* collection[k]: the record of k as the store returns it; KeyError when the
\* collection does not hold k.
getitem(coll, k) ==
    IF k \notin DOMAIN coll
    THEN [ok |-> FALSE, value |-> <<>>]
    ELSE [ok |-> TRUE,
          value |-> [ids |-> <<k>>,
                     embeddings |-> NoneValue,
                     metadatas |-> <<coll[k].metadatas>>,
                     documents |-> <<coll[k].documents>>,
                     uris |-> NoneValue,
                     data |-> NoneValue]]

\* collection[k] = v
SetItem ==
    /\ last.op = "none"
    /\ \E k \in Keys, v \in WriteValues :
        /\ collection' = setitem(collection, k, v)
        /\ store_calls' = <<>>
        /\ last' = [NoOp EXCEPT !.op = "setitem", !.key = k, !.value = v,
                                !.pre = collection]

NextStore ==
    \/ AddIfMissing /\ UNCHANGED <<bindVars, wrapVars, poolVars>>
    \/ SetItem /\ UNCHANGED <<bindVars, wrapVars, poolVars>>

----------------------------------------------------------------------------
(* SpecPool: one call mapped_list(func, iterable, max_workers=n).          *)
(* With n = 1 the call is list(map(func, iterable)). Otherwise             *)
(* executor.map submits one future per element, the pool's workers take    *)
(* the work items first in, first out and finish them in any order, the    *)
(* caller takes the futures' results in the order submitted, and leaving   *)
(* the with block joins the workers.                                       *)

Items == {1, 2}
Funcs == {"square", "negate"}
Apply(func, x) == IF func = "square" THEN x * x ELSE 0 - x

Future(done, result) == [done |-> done, result |-> result]

StartPool(func, iterable, n) ==
    [pc |-> "start", func |-> func, iterable |-> iterable, max_workers |-> n,
     futures |-> <<>>, work_queue |-> <<>>,
     workers |-> [w \in 1..n |-> 0],
     completed |-> <<>>, fetched |-> <<>>, out |-> <<>>]

IdlePool == StartPool("square", <<>>, 1)

\* The calls of mapped_list: a function, an iterable, a number of workers.
PoolCalls ==
    {StartPool(func, iterable, n) :
        func \in Funcs, iterable \in SeqsUpTo(Items, MaxLen), n \in 1..MaxWorkers}

\* list(map(func, iterable))
list_map(func, iterable) ==
    [i \in 1..Len(iterable) |-> Apply(func, iterable[i])]

\* max_workers == 1: return list(map(func, iterable))
Sequential ==
    /\ pool.pc = "start" /\ pool.max_workers = 1
    /\ pool' = [pool EXCEPT !.pc = "done",
                            !.out = list_map(pool.func, pool.iterable)]

\* executor.map: submit(fn, x) for the next element of the iterable.
Submit ==
    /\ pool.pc = "start" /\ pool.max_workers # 1
    /\ Len(pool.futures) < Len(pool.iterable)
    /\ pool' = [pool EXCEPT
                  !.futures = Append(@, Future(FALSE, 0)),
                  !.work_queue = Append(@, Len(pool.futures) + 1)]

\* executor.map has submitted every element: the caller starts on the results.
Submitted ==
    /\ pool.pc = "start" /\ pool.max_workers # 1
    /\ Len(pool.futures) = Len(pool.iterable)
    /\ pool' = [pool EXCEPT !.pc = "collecting"]

\* A worker thread takes the next work item off the queue.
WorkerTake ==
    \E w \in DOMAIN pool.workers :
        /\ pool.workers[w] = 0
        /\ Len(pool.work_queue) > 0
        /\ pool' = [pool EXCEPT !.workers[w] = Head(pool.work_queue),
                                !.work_queue = Tail(@)]

\* A worker thread has run func on its element and sets the future's result.
WorkerFinish ==
    \E w \in DOMAIN pool.workers :
        LET i == pool.workers[w] IN
        /\ i # 0
        /\ pool' = [pool EXCEPT
                      !.workers[w] = 0,
                      !.futures[i] = Future(TRUE, Apply(pool.func, pool.iterable[i])),
                      !.completed = Append(@, i)]

\* A mutant of next_future: the caller takes the results as they complete.
next_future_as_completed(p) ==
    IF Len(p.completed) > Len(p.fetched)
    THEN p.completed[Len(p.fetched) + 1]
    ELSE Len(p.fetched) + 1

\* The future whose result the result iterator of executor.map yields next:
\* the next one in the order submitted.
next_future(p) == Len(p.fetched) + 1

\* list(...) takes the next result, waiting for its future to be done.
Collect ==
    /\ pool.pc = "collecting"
    /\ Len(pool.fetched) < Len(pool.futures)
    /\ pool.futures[next_future(pool)].done
    /\ pool' = [pool EXCEPT
                  !.fetched = Append(@, pool.futures[next_future(pool)].result)]

\* Leaving the with block: shutdown(wait=True) joins the workers, and the
\* list is returned.
Shutdown ==
    /\ pool.pc = "collecting"
    /\ Len(pool.fetched) = Len(pool.futures)
    /\ \A w \in DOMAIN pool.workers : pool.workers[w] = 0
    /\ Len(pool.work_queue) = 0
    /\ pool' = [pool EXCEPT !.pc = "done", !.out = pool.fetched]

NextPool ==
    \/ Sequential /\ UNCHANGED <<bindVars, wrapVars, storeVars>>
    \/ Submit /\ UNCHANGED <<bindVars, wrapVars, storeVars>>
    \/ Submitted /\ UNCHANGED <<bindVars, wrapVars, storeVars>>
    \/ WorkerTake /\ UNCHANGED <<bindVars, wrapVars, storeVars>>
    \/ WorkerFinish /\ UNCHANGED <<bindVars, wrapVars, storeVars>>
    \/ Collect /\ UNCHANGED <<bindVars, wrapVars, storeVars>>
    \/ Shutdown /\ UNCHANGED <<bindVars, wrapVars, storeVars>>

----------------------------------------------------------------------------
(* The specifications *)

\* No call of map_arguments yet; the other parts idle.
InitBind ==
    /\ bound = NoCall
    /\ instance = BaseInstance /\ delegated = NotBuilt
    /\ invoked = <<>> /\ outcome = NoOutcome
    /\ collection = <<>> /\ store_calls = <<>> /\ last = NoOp
    /\ pool = IdlePool

\* An object, not wrapped yet; the other parts idle.
InitWrap ==
    /\ bound = NoCall
    /\ instance \in Instances /\ delegated = NotBuilt
    /\ invoked = <<>> /\ outcome = NoOutcome
    /\ collection = <<>> /\ store_calls = <<>> /\ last = NoOp
    /\ pool = IdlePool

\* A collection as item assignments left it; the other parts idle.
InitStore ==
    /\ bound = NoCall
    /\ instance = BaseInstance /\ delegated = NotBuilt
    /\ invoked = <<>> /\ outcome = NoOutcome
    /\ collection \in Collections /\ store_calls = <<>> /\ last = NoOp
    /\ pool = IdlePool

\* A call of mapped_list about to start; the other parts idle.
InitPool ==
    /\ bound = NoCall
    /\ instance = BaseInstance /\ delegated = NotBuilt
    /\ invoked = <<>> /\ outcome = NoOutcome
    /\ collection = <<>> /\ store_calls = <<>> /\ last = NoOp
    /\ pool \in PoolCalls

SpecBind == InitBind /\ [][NextBind]_vars
SpecWrap == InitWrap /\ [][NextWrap]_vars
SpecStore == InitStore /\ [][NextStore]_vars
SpecPool == InitPool /\ [][NextPool]_vars

----------------------------------------------------------------------------
(* Claims about map_arguments and argument_value (SpecBind)                *)

\* How a call binds: the parameter at position i takes the i-th positional
\* argument when there is one, else the keyword argument of its name, else
\* its default.
CallValue(sig, args, kwargs, i) ==
    IF i <= Len(args) THEN args[i]
    ELSE IF sig[i].name \in DOMAIN kwargs THEN kwargs[sig[i].name]
    ELSE sig[i].default

\* A call is an error when it gives more positional arguments than there are
\* parameters, gives a parameter both ways, names an unknown keyword, or
\* leaves a required parameter without a value.
CallIsError(sig, args, kwargs) ==
    \/ Len(args) > Len(sig)
    \/ \E i \in 1..Len(sig) : i <= Len(args) /\ sig[i].name \in DOMAIN kwargs
    \/ \E k \in DOMAIN kwargs : k \notin ParamNames(sig)
    \/ \E i \in 1..Len(sig) :
          i > Len(args) /\ sig[i].name \notin DOMAIN kwargs /\ sig[i].required

\* C10: map_arguments and argument_value resolve a call's arguments as a call
\* binds them: positional arguments fill the parameters left to right,
\* keyword arguments fill by name, defaults fill the rest, and the result
\* maps every declared parameter name to its value; a call that misses a
\* required parameter or names an unknown keyword is an error, not a mapping.
C10_MapArgumentsBindsAsACall ==
    LET sig == bound.sig
        args == bound.args
        kwargs == bound.kwargs
    IN  /\ bound.op = "map_arguments" =>
            /\ bound.mapped.ok <=> ~CallIsError(sig, args, kwargs)
            /\ bound.mapped.ok =>
                /\ DOMAIN bound.mapped.arguments = ParamNames(sig)
                /\ \A i \in 1..Len(sig) :
                      bound.mapped.arguments[sig[i].name]
                          = CallValue(sig, args, kwargs, i)
        /\ bound.op = "argument_value" =>
            /\ bound.value.ok <=>
                  /\ ~CallIsError(sig, args, kwargs)
                  /\ bound.argname \in ParamNames(sig)
            /\ bound.value.ok =>
                  \E i \in 1..Len(sig) :
                      /\ sig[i].name = bound.argname
                      /\ bound.value.value = CallValue(sig, args, kwargs, i)

\* The docstring's call: x positional, y by keyword, z left to its default.
C10_Witness ==
    /\ bound.op = "map_arguments"
    /\ Len(bound.sig) = 3 /\ bound.args = <<1>>
    /\ DOMAIN bound.kwargs = {"y"} /\ bound.kwargs["y"] = 2
    /\ bound.mapped.ok
    /\ bound.mapped.arguments["x"] = 1
    /\ bound.mapped.arguments["y"] = 2
    /\ bound.mapped.arguments["z"] = 42

----------------------------------------------------------------------------
(* Claims about the wrapper (SpecWrap)                                     *)

\* The method behind the call or lookup that outcome records.
OutcomeMethod == outcome.pre[outcome.name]

\* The include of a call: the caller's value, positional or by keyword, or
\* when the call gives none the method's declared default.
EffectiveInclude(sig, args, kwargs) ==
    LET i == CHOOSE i \in 1..Len(sig) : sig[i].name = "include"
    IN  CallValue(sig, args, kwargs, i)

\* C1: for every wrapped method and every call of it (that the method
\* itself accepts), the call returns a mapping whose keys are exactly the
\* keys of the original method's result that lie in {"ids"} united with
\* include, include being the caller's value or else the declared default;
\* "ids" is kept whatever include is. With the declared default
\* ["metadatas", "documents"], a call without include returns only ids,
\* documents and metadatas, and one with include=["uris"] only ids, uris.
C1_WrappedKeepsOnlyIncludeKeys ==
    (/\ outcome.op = "call_wrapped"
     /\ ~CallIsError(OutcomeMethod.sig, outcome.args, outcome.kwargs)) =>
        LET sig == OutcomeMethod.sig
            include == EffectiveInclude(sig, outcome.args, outcome.kwargs)
        IN  /\ outcome.ok
            /\ DOMAIN outcome.result =
                   ResultKeys(Impl(OutcomeMethod)) \cap ({"ids"} \cup Range(include))
            /\ "ids" \in DOMAIN outcome.result
            /\ (outcome.name = "get" /\ include = <<"metadatas", "documents">>)
                   => DOMAIN outcome.result = {"ids", "documents", "metadatas"}
            /\ (outcome.name = "get" /\ include = <<"uris">>)
                   => DOMAIN outcome.result = {"ids", "uris"}

\* C2: a wrapped method accepts the calls the original accepts: for every
\* call the original accepts, positional, by keyword or mixed, the wrapped
\* method does not fail, invokes the original exactly once with the
\* arguments the call binds, and returns the original's result filtered to
\* {"ids"} united with include.
C2_WrappedAcceptsTheCallsOfTheOriginal ==
    outcome.op = "call_wrapped" =>
        LET original == CallMethod(OutcomeMethod, outcome.args, outcome.kwargs)
        IN  original.ok =>
              /\ outcome.ok
              /\ invoked = <<[name |-> Impl(OutcomeMethod),
                              arguments |-> original.arguments]>>
              /\ outcome.result =
                     subdict(original.result,
                             <<"ids">> \o original.arguments["include"])

\* The names the proxy has itself: its wrapped_obj, and what normal lookup
\* finds on its class.
ProxyOwnNames == {"wrapped_obj"} \cup DOMAIN DelegatorClassAttrs

\* The names of the object that the wrapper wraps.
IncludeBearingPublic(obj) ==
    {n \in DOMAIN obj : /\ Head(n) # "_"
                        /\ obj[n].callable
                        /\ "include" \in ParamNames(obj[n].sig)}

\* A passed-through call does what the call on the object does: the same
\* failure or result, the same invocation, the same change of the object.
PassthroughCallIsTheObjects ==
    outcome.op = "call_passthrough" =>
        LET original == CallMethod(OutcomeMethod, outcome.args, outcome.kwargs)
        IN  /\ outcome.ok = original.ok
            /\ outcome.result = original.result
            /\ original.ok =>
                /\ invoked = <<[name |-> Impl(OutcomeMethod),
                                arguments |-> original.arguments]>>
                /\ instance = Effect(outcome.pre, Impl(OutcomeMethod),
                                     original.arguments)
            /\ ~original.ok => (invoked = <<>> /\ instance = outcome.pre)

C6_WrapsByConfiguredParameterName ==
    (delegated.built /\ outcome.op = "discover") =>
        \A n \in AttrNames :
            n \in WrappedNames(delegated) <=>
                /\ n \in DOMAIN instance
                /\ Head(n) # "_"
                /\ instance[n].callable
                /\ outcome.name \in ParamNames(instance[n].sig)

\* C6, amended: the wrapper wraps a method if and only if it is a public
\* callable attribute of the instance whose parameters contain "include",
\* whatever method_names is given; the parameter name is configurable only
\* in _methods_containing_include_argument, which lists the public callable
\* attributes whose parameters contain the name it is asked for.
C6_WrapsByIncludeParameter ==
    /\ delegated.built =>
        \A n \in AttrNames :
            n \in WrappedNames(delegated) <=>
                /\ n \in DOMAIN instance
                /\ Head(n) # "_"
                /\ instance[n].callable
                /\ "include" \in ParamNames(instance[n].sig)
    /\ outcome.op = "discover" =>
        \A n \in AttrNames :
            n \in outcome.names <=>
                /\ n \in DOMAIN instance
                /\ Head(n) # "_"
                /\ instance[n].callable
                /\ outcome.name \in ParamNames(instance[n].sig)

\* An object with a public peek(limit, include=...) and a private
\* _get(ids, include=...), wrapped with method_names = ['count'].
C6_Witness ==
    /\ delegated.built /\ delegated.method_names = <<"count">>
    /\ "_get" \in DOMAIN instance /\ "_get" \notin WrappedNames(delegated)
    /\ WrappedNames(delegated) = {"get", "query", "peek"}

----------------------------------------------------------------------------
(* Claims about add_if_missing and item assignment (SpecStore)             *)

\* The ids of the last call, as a list (None is no id).
LastIds == IF last.ids = NoneValue THEN <<>> ELSE last.ids

\* The value the last call supplied for field f of the id at position i:
\* None when the field was left out or given as None.
Supplied(f, i) ==
    IF f \in DOMAIN last.kwargs /\ last.kwargs[f] # NoneValue
    THEN last.kwargs[f][i] ELSE None

\* The positions of the last call's ids that the collection did not hold.
AbsentPositions == {i \in 1..Len(LastIds) : LastIds[i] \notin DOMAIN last.pre}

\* C3: add_if_missing never overwrites: after any call, every key that was
\* present before has exactly its prior field values, and every key of the
\* call that was absent before is present with the field values the call
\* supplied for it.
C3_AddIfMissingAddsOnlyTheAbsent ==
    last.op = "add_if_missing" =>
        /\ \A k \in DOMAIN last.pre :
              k \in DOMAIN collection /\ collection[k] = last.pre[k]
        /\ \A i \in AbsentPositions :
              /\ LastIds[i] \in DOMAIN collection
              /\ \A f \in Fields : collection[LastIds[i]][f] = Supplied(f, i)

\* C7: add_if_missing costs at most one existence-only query and at most
\* one batch write: no store call for an empty key list; the query and no
\* write when every key exists; otherwise exactly one query followed by
\* exactly one write that holds only the keys that were absent.
C7_OneQueryThenOneWrite ==
    last.op = "add_if_missing" =>
        /\ Len(LastIds) = 0 => store_calls = <<>>
        /\ (Len(LastIds) > 0 /\ AbsentPositions = {}) =>
              store_calls = <<GetCall(LastIds)>>
        /\ AbsentPositions # {} =>
              /\ Len(store_calls) = 2
              /\ store_calls[1] = GetCall(LastIds)
              /\ store_calls[2].op = "add"
              /\ Range(store_calls[2].ids) =
                     {LastIds[i] : i \in AbsentPositions}

\* C8: in the batch write of add_if_missing every field list that is
\* present is as long as the list of written keys and aligned with it: the
\* value at index j is the one the caller supplied at the input position of
\* the j-th written key, input order is kept, and a field given as None
\* stays absent and does not fail the call.
C8_WrittenFieldsAlignWithWrittenKeys ==
    (last.op = "add_if_missing" /\ AbsentPositions # {}) =>
        /\ last.ok
        /\ Len(store_calls) = 2 /\ store_calls[2].op = "add"
        /\ LET written == store_calls[2].kwargs
               n == Len(written["ids"])
           IN  \E pos \in [1..n -> 1..Len(LastIds)] :
                 /\ \A j \in 1..n : \A l \in 1..n : j < l => pos[j] < pos[l]
                 /\ {pos[j] : j \in 1..n} = AbsentPositions
                 /\ \A j \in 1..n : written["ids"][j] = LastIds[pos[j]]
                 /\ \A f \in Fields :
                      IF f \in DOMAIN last.kwargs /\ last.kwargs[f] # NoneValue
                      THEN /\ f \in DOMAIN written
                           /\ Len(written[f]) = n
                           /\ \A j \in 1..n :
                                 written[f][j] = last.kwargs[f][pos[j]]
                      ELSE f \in DOMAIN written => written[f] = NoneValue

\* The record that reading the key of the last item assignment must give:
\* the normalized form of the assigned value.
ExpectedRead ==
    LET v == last.value
        given(f) == IF v.form = "string"
                    THEN (IF f = "documents" THEN v.text ELSE None)
                    ELSE (IF f \in DOMAIN v.fields THEN v.fields[f] ELSE None)
    IN  [ids |-> <<last.key>>,
         embeddings |-> NoneValue,
         metadatas |-> <<given("metadatas")>>,
         documents |-> <<given("documents")>>,
         uris |-> NoneValue,
         data |-> NoneValue]

----------------------------------------------------------------------------
(* Claims about mapped_list (SpecPool)                                     *)

\* C9: mapped_list(func, iterable, max_workers=n) returns, for every n >= 1
\* and every interleaving and completion order of the workers, the list of
\* func(x) for x in iterable, in input order and as long as the input, and
\* returns only after every element has been processed.
C9_MappedListIsTheMapInInputOrder ==
    pool.pc = "done" =>
        /\ Len(pool.out) = Len(pool.iterable)
        /\ \A i \in 1..Len(pool.iterable) :
              pool.out[i] = Apply(pool.func, pool.iterable[i])
        /\ pool.max_workers # 1 =>
              /\ Len(pool.futures) = Len(pool.iterable)
              /\ \A i \in 1..Len(pool.futures) : pool.futures[i].done
              /\ \A w \in DOMAIN pool.workers : pool.workers[w] = 0
              /\ pool.work_queue = <<>>

\* Two workers finished the second element before the first, and the call
\* returned.
C9_Witness ==
    /\ pool.pc = "done" /\ pool.max_workers = 2
    /\ pool.iterable = <<1, 2>> /\ pool.func = "square"
    /\ pool.completed = <<2, 1>>
    /\ pool.out = <<1, 4>>

====
